---- MODULE Spec2Model ----
(***************************************************************************)
(* ODIS2VCP: conversion of ODIS XML datasets to VCP XML or a raw binary    *)
(* dump, with optional payload replacement and CRC recomputation.          *)
(*                                                                         *)
(* Representation.                                                         *)
(*   text (str)      a sequence of one-character strings                   *)
(*   bytes           a sequence of integers 0..255                         *)
(*   Optional[str]   [present, val]                                        *)
(*   a call that may raise   [err, val], err = "" when it returns          *)
(*   a 32-bit register       [hi, lo], two 16-bit halves (the values do    *)
(*                           not fit the checker's integers)               *)
(*   an XML document (VCP)   the sequence of <<tag, text>> leaves in       *)
(*                           document order                                *)
(***************************************************************************)
EXTENDS Integers, Sequences, FiniteSets, TLC

(***************************************************************************)
(* Bounds of the model.                                                    *)
(***************************************************************************)
\* PARAMETER_DATA elements in the input document
MaxEntries == 2
\* length of the replacement payload read from --modinput
MaxPayloadLen == 5

(***************************************************************************)
(* Values.                                                                 *)
(***************************************************************************)
None == [present |-> FALSE, val |-> <<>>]
Some(s) == [present |-> TRUE, val |-> s]

Ok(v) == [err |-> "", val |-> v]
Raise(e, v) == [err |-> e, val |-> v]

Max(a, b) == IF a >= b THEN a ELSE b

HexDigits == <<"0", "1", "2", "3", "4", "5", "6", "7",
               "8", "9", "a", "b", "c", "d", "e", "f">>
UpperHexDigits == <<"0", "1", "2", "3", "4", "5", "6", "7",
                    "8", "9", "A", "B", "C", "D", "E", "F">>
Whitespace == {" ", "\t", "\n", "\r"}

IsHexDigit(c) == \E i \in 1..16 : HexDigits[i] = c \/ UpperHexDigits[i] = c
HexVal(c) == (CHOOSE i \in 1..16 : HexDigits[i] = c \/ UpperHexDigits[i] = c) - 1

(***************************************************************************)
(* str.replace('0x', ''): leftmost, non-overlapping occurrences.           *)
(***************************************************************************)
RECURSIVE Replace0x(_)
Replace0x(s) ==
    IF s = <<>> THEN <<>>
    ELSE IF Len(s) >= 2 /\ s[1] = "0" /\ s[2] = "x"
         THEN Replace0x(SubSeq(s, 3, Len(s)))
         ELSE <<s[1]>> \o Replace0x(Tail(s))

IsNotWhitespace(c) == c \notin Whitespace
IsNotComma(c) == c # ","

(***************************************************************************)
(* binascii.unhexlify: an even number of hex digits, two per byte.         *)
(***************************************************************************)
unhexlify(s) ==
    IF Len(s) % 2 = 1 THEN Raise("binascii.Error", <<>>)
    ELSE IF \E i \in 1..Len(s) : ~IsHexDigit(s[i]) THEN Raise("binascii.Error", <<>>)
    ELSE Ok([i \in 1..(Len(s) \div 2) |->
                16 * HexVal(s[2 * i - 1]) + HexVal(s[2 * i])])

(***************************************************************************)
(* convert_to_binary(hex_string): None is the empty byte string; otherwise *)
(* '0x' is removed first, then whitespace, then commas.                    *)
(***************************************************************************)
convert_to_binary(hex_string) ==
    IF ~hex_string.present THEN Ok(<<>>)
    ELSE LET clean1 == Replace0x(hex_string.val)
             clean2 == SelectSeq(clean1, IsNotWhitespace)
             clean3 == SelectSeq(clean2, IsNotComma)
         IN unhexlify(clean3)

(***************************************************************************)
(* int(s, 16): surrounding whitespace, an optional sign, an optional 0x or *)
(* 0X prefix, then at least one hex digit. (Digit-group underscores are    *)
(* not modelled; no modelled attribute text contains one.)                 *)
(***************************************************************************)
RECURSIVE LStrip(_)
LStrip(s) == IF s # <<>> /\ s[1] \in Whitespace THEN LStrip(Tail(s)) ELSE s

RECURSIVE RStrip(_)
RStrip(s) ==
    IF s # <<>> /\ s[Len(s)] \in Whitespace THEN RStrip(SubSeq(s, 1, Len(s) - 1)) ELSE s

RECURSIVE HexDigitsValue(_)
HexDigitsValue(s) ==
    IF s = <<>> THEN 0
    ELSE 16 * HexDigitsValue(SubSeq(s, 1, Len(s) - 1)) + HexVal(s[Len(s)])

int16(text) ==
    LET s == RStrip(LStrip(text))
        signed == s # <<>> /\ s[1] \in {"-", "+"}
        sign == IF signed /\ s[1] = "-" THEN -1 ELSE 1
        body == IF signed THEN Tail(s) ELSE s
        prefixed == Len(body) >= 2 /\ body[1] = "0" /\ body[2] \in {"x", "X"}
        digits == IF prefixed THEN SubSeq(body, 3, Len(body)) ELSE body
    IN IF digits = <<>> \/ \E i \in 1..Len(digits) : ~IsHexDigit(digits[i])
       THEN Raise("ValueError", 0)
       ELSE Ok(sign * HexDigitsValue(digits))

(***************************************************************************)
(* Formatting: f"{n:x}" and f"{b:02x}".                                    *)
(***************************************************************************)
RECURSIVE FormatHexNat(_)
FormatHexNat(n) ==
    IF n < 16 THEN <<HexDigits[n + 1]>>
    ELSE FormatHexNat(n \div 16) \o <<HexDigits[(n % 16) + 1]>>

FormatHex(n) == IF n < 0 THEN <<"-">> \o FormatHexNat(0 - n) ELSE FormatHexNat(n)

\* mutant: f"{b:x}", no zero padding
FormatByte_NoPadding(b) == FormatHexNat(b)

FormatByte02x(b) == <<HexDigits[(b \div 16) + 1], HexDigits[(b % 16) + 1]>>

\* ','.join(parts)
RECURSIVE JoinComma(_)
JoinComma(parts) ==
    IF parts = <<>> THEN <<>>
    ELSE IF Len(parts) = 1 THEN parts[1]
    ELSE parts[1] \o <<",">> \o JoinComma(Tail(parts))

\* ','.join([f"0x{b:02x}" for b in data])
EncodeHexData(data) ==
    JoinComma([i \in 1..Len(data) |-> <<"0", "x">> \o FormatByte02x(data[i])])

(***************************************************************************)
(* 32-bit register arithmetic on [hi, lo].                                 *)
(***************************************************************************)
Word(hi, lo) == [hi |-> hi, lo |-> lo]

\* a small non-negative integer as a 32-bit register
WordOf(n) == Word((n \div 65536) % 65536, n % 65536)

RECURSIVE XorBits(_, _, _)
XorBits(a, b, n) ==
    IF n = 0 THEN 0
    ELSE ((a + b) % 2) + 2 * XorBits(a \div 2, b \div 2, n - 1)

\* XOR of two 4-bit values, tabulated once
XorNibble == [a \in 0..15, b \in 0..15 |-> XorBits(a, b, 4)]

Xor16(a, b) ==
    XorNibble[a % 16, b % 16]
    + 16 * XorNibble[(a \div 16) % 16, (b \div 16) % 16]
    + 256 * XorNibble[(a \div 256) % 16, (b \div 256) % 16]
    + 4096 * XorNibble[(a \div 4096) % 16, (b \div 4096) % 16]

Xor32(a, b) == Word(Xor16(a.hi, b.hi), Xor16(a.lo, b.lo))

Shr1(w) == Word(w.hi \div 2, (w.lo \div 2) + 32768 * (w.hi % 2))
Shr8(w) == Word(w.hi \div 256, (w.lo \div 256) + 256 * (w.hi % 256))

RECURSIVE RevBits(_, _)
RevBits(x, n) ==
    IF n = 0 THEN 0
    ELSE (x % 2) * (2 ^ (n - 1)) + RevBits(x \div 2, n - 1)

(***************************************************************************)
(* The constants of the program. CRC32_POLYNOMIAL is 0x104c11db7, 33 bits: *)
(* the leading bit and the two 16-bit halves 0x04c1, 0x1db7.               *)
(* CRC32_XOR_OUT is 0xFFFFFFFF.                                            *)
(***************************************************************************)
CRC32_POLYNOMIAL == [top |-> 1, hi |-> 1217, lo |-> 7607]
CRC32_INIT_VALUE == 0
CRC32_XOR_OUT == Word(65535, 65535)

(***************************************************************************)
(* crcmod.mkCrcFun(poly, initCrc, rev=True, xorOut), as update_crc calls   *)
(* it: rev is not passed, so the bit-reversed algorithm is built.          *)
(*   _verifyParams   the width is the polynomial's degree (32); initCrc    *)
(*                   and xorOut are masked to it                           *)
(*   _bitrev         the polynomial with its 32 bits reversed              *)
(*   _bytecrc_r      eight right shifts of the register, the reversed      *)
(*                   polynomial XORed in when a 1 is shifted out           *)
(*   _mkTable_r      table[i] = _bytecrc_r(i)                              *)
(*   _crc32r         crc = table[x ^ (crc & 0xFF)] ^ (crc >> 8) per byte   *)
(*   crcfun          xorOut ^ _crc32r(data, xorOut ^ initCrc)              *)
(***************************************************************************)
_bitrev(w) == Word(RevBits(w.lo, 16), RevBits(w.hi, 16))

PolyMasked == Word(CRC32_POLYNOMIAL.hi, CRC32_POLYNOMIAL.lo)
PolyReversed == _bitrev(PolyMasked)

RECURSIVE _bytecrc_r(_, _, _)
_bytecrc_r(crc, poly, k) ==
    IF k = 0 THEN crc
    ELSE IF crc.lo % 2 = 1 THEN _bytecrc_r(Xor32(Shr1(crc), poly), poly, k - 1)
    ELSE _bytecrc_r(Shr1(crc), poly, k - 1)

\* the table mkCrcFun builds once, one entry per byte value
_mkTable_r == [i \in 0..255 |-> _bytecrc_r(WordOf(i), PolyReversed, 8)]

Word32 == [hi : 0..65535, lo : 0..65535]

\* the body of _crc32r's loop: crc = table[x ^ (crc & 0xFF)] ^ (crc >> 8)
Crc32rStep[crc \in Word32, x \in 0..255] ==
    Xor32(_mkTable_r[Xor16(x, crc.lo % 256)], Shr8(crc))

RECURSIVE _crc32r(_, _)
_crc32r(data, crc) ==
    IF data = <<>> THEN crc
    ELSE _crc32r(Tail(data), Crc32rStep[crc, data[1]])

\* mutant: initCrc taken as the register's start value
crc32_func_InitIsRegister(data) ==
    Xor32(CRC32_XOR_OUT, _crc32r(data, WordOf(CRC32_INIT_VALUE)))

crc32_func(data) ==
    Xor32(CRC32_XOR_OUT, _crc32r(data, Xor32(CRC32_XOR_OUT, WordOf(CRC32_INIT_VALUE))))

\* mutant: most-significant byte first
to_bytes_big(w) == <<w.hi \div 256, w.hi % 256, w.lo \div 256, w.lo % 256>>

\* int.to_bytes(4, byteorder='little')
to_bytes_little(w) == <<w.lo % 256, w.lo \div 256, w.hi % 256, w.hi \div 256>>

\* data[:-4]: everything but the last four bytes, empty when there are fewer
AllButLast4(data) == SubSeq(data, 1, Max(Len(data) - 4, 0))

(***************************************************************************)
(* The inputs of a run.                                                    *)
(*                                                                         *)
(* A PARAMETER_DATA element: its text and its attributes, each absent or   *)
(* a text.                                                                 *)
(***************************************************************************)
Param(text, diag, start, name, version, login) ==
    [text |-> text, DIAGNOSTIC_ADDRESS |-> diag, START_ADDRESS |-> start,
     ZDC_NAME |-> name, ZDC_VERSION |-> version, LOGIN |-> login]

Params ==
    { \* "0x01,0x02" at 0x12 / 0x100, no name
      Param(Some(<<"0", "x", "0", "1", ",", "0", "x", "0", "2">>),
            Some(<<"1", "2">>), Some(<<"0", "x", "1", "0", "0">>), None, None, None),
      \* no text, no address, an empty name
      Param(None, None, None, Some(<<>>), None, None),
      \* "0A 0b" with every attribute
      Param(Some(<<"0", "A", " ", "0", "b">>), Some(<<"0", "X", "1", "a">>),
            Some(<<"f", "f">>), Some(<<"N">>), Some(<<"1">>), Some(<<"L">>)),
      \* odd number of hex digits
      Param(Some(<<"0", "x", "1">>), Some(<<"1", "2">>), None, Some(<<"N">>), None, None),
      \* not a hex digit
      Param(Some(<<"0", "g">>), None, None, None, None, None),
      \* diagnostic address that is no hexadecimal number
      Param(Some(<<"f", "f">>), Some(<<"g">>), None, None, None, None),
      \* start address that is no hexadecimal number
      Param(Some(<<"f", "f">>), Some(<<"1">>), Some(<<"0", "x">>), Some(<<"N">>), None, None) }

\* the byte values of the replacement payloads
PayloadBytes == {0, 165}

RECURSIVE SeqsUpTo(_, _)
SeqsUpTo(S, n) ==
    IF n = 0 THEN {<<>>}
    ELSE LET shorter == SeqsUpTo(S, n - 1)
         IN shorter \cup {Append(q, x) : q \in {r \in shorter : Len(r) = n - 1}, x \in S}

Payloads == SeqsUpTo(PayloadBytes, MaxPayloadLen)

\* base names of the input file, without extension
InputNames == {<<"i", "n">>}

(***************************************************************************)
(* DatasetODIS and ConversionResult.                                       *)
(***************************************************************************)
DatasetODIS(data, address, start_address) ==
    [data |-> data, address |-> address, start_address |-> start_address,
     name |-> None, version |-> None, login |-> None]

ConversionResult(dataset, vcp) == [dataset |-> dataset, vcp |-> vcp]

(***************************************************************************)
(* The body of parse_odis_file's loop for one element, up to the append:   *)
(* the dataset, or the exception raised. The arguments of DatasetODIS are  *)
(* evaluated in order: the payload, the diagnostic address, the start      *)
(* address.                                                                *)
(***************************************************************************)
\* param.get(attr, default)
GetAttr(attr, default) == IF attr.present THEN attr.val ELSE default

\* mutant: an address that does not parse is taken as 0
ParseParam_BadAddressIsZero(param) ==
    LET data == convert_to_binary(param.text)
        address == int16(GetAttr(param.DIAGNOSTIC_ADDRESS, <<"0">>))
        start_address == int16(GetAttr(param.START_ADDRESS, <<"0">>))
    IN IF data.err # "" THEN Raise(data.err, <<>>)
       ELSE Ok([DatasetODIS(data.val, address.val, start_address.val)
                    EXCEPT !.name = param.ZDC_NAME,
                           !.version = param.ZDC_VERSION,
                           !.login = param.LOGIN])

ParseParam(param) ==
    LET diag_addr_str == GetAttr(param.DIAGNOSTIC_ADDRESS, <<"0">>)
        start_addr_str == GetAttr(param.START_ADDRESS, <<"0">>)
        data == convert_to_binary(param.text)
        address == int16(diag_addr_str)
        start_address == int16(start_addr_str)
    IN IF data.err # "" THEN Raise(data.err, <<>>)
       ELSE IF address.err # "" THEN Raise(address.err, <<>>)
       ELSE IF start_address.err # "" THEN Raise(start_address.err, <<>>)
       ELSE Ok([DatasetODIS(data.val, address.val, start_address.val)
                    EXCEPT !.name = param.ZDC_NAME,
                           !.version = param.ZDC_VERSION,
                           !.login = param.LOGIN])

\* except (ValueError, TypeError, binascii.Error)
CaughtInLoop == {"ValueError", "TypeError", "binascii.Error"}

(***************************************************************************)
(* update_crc(dataset, new_data): the dataset after the call and the       *)
(* value returned.                                                         *)
(***************************************************************************)
update_crc(dataset, new_data) ==
    LET base_data == AllButLast4(new_data)
        new_crc == crc32_func(base_data)
    IN [dataset |-> [dataset EXCEPT !.data = base_data \o to_bytes_little(new_crc)],
        ret |-> new_crc]

(***************************************************************************)
(* convert_dataset_to_vcp(dataset, input_name).                            *)
(***************************************************************************)
\* mutant: x if x is not None else y
OrElse_IfNotNone(x, y) == IF x.present THEN x.val ELSE y

\* x or y, for an Optional[str] x
OrElse(x, y) == IF x.present /\ x.val # <<>> THEN x.val ELSE y

convert_dataset_to_vcp(dataset, input_name) ==
    LET name == OrElse(dataset.name, input_name \o <<"-">> \o FormatHex(dataset.address))
        size == Len(dataset.data)
        hex_data == EncodeHexData(dataset.data)
        vcp_xml == << <<"LOGIN", OrElse(dataset.login, <<>>)>>,
                      <<"DATAIID", name>>,
                      <<"VERSION-INHALT", OrElse(dataset.version, <<>>)>>,
                      <<"DATEN-NAME", name>>,
                      <<"DATEN-FORMAT_NAME", <<"D", "F", "N", "_", "H", "E", "X">> >>,
                      <<"START-ADR", <<"0", "x">> \o FormatHex(dataset.start_address)>>,
                      <<"GROESSE-DEKOMPRIMIERT", <<"0", "x">> \o FormatHex(size)>>,
                      <<"DATEN", hex_data>> >>
    IN ConversionResult(dataset, vcp_xml)

convert_to_vcp(datasets, input_name) ==
    [i \in 1..Len(datasets) |-> convert_dataset_to_vcp(datasets[i], input_name)]

(***************************************************************************)
(* export_output(converted, args, input_name, new_crc): the exception it   *)
(* raises, if any, and what it wrote. args.output, when given, was opened  *)
(* by argparse in text mode ('w'); a derived file is opened 'wb' for raw   *)
(* output and 'w' for VCP. io_error is the environment failing the open or *)
(* the write.                                                              *)
(***************************************************************************)
WriteRaw(args, data, io_error) ==
    IF args.output THEN Raise("TypeError", <<>>)
    ELSE IF io_error THEN Raise("IOError", <<>>)
    ELSE Ok(<< [mode |-> "raw", file |-> "RAW_", content |-> data] >>)

WriteVcp(args, derived, vcp, io_error) ==
    IF io_error THEN Raise("IOError", <<>>)
    ELSE Ok(<< [mode |-> "vcp",
                file |-> IF args.output THEN "output" ELSE derived,
                content |-> vcp] >>)

export_output(converted, args, io_error) ==
    IF converted = <<>> THEN Ok(<<>>)
    ELSE IF args.raw THEN WriteRaw(args, converted[1].dataset.data, io_error)
    ELSE IF args.modinput THEN WriteVcp(args, "VCP_mod_", converted[1].vcp, io_error)
    ELSE WriteVcp(args, "VCP_converted_", converted[1].vcp, io_error)

(***************************************************************************)
(* The state of a run of main().                                           *)
(***************************************************************************)
VARIABLES
    pc,          \* where main() is
    args,        \* [raw, modinput, output]: the options given
    input_name,  \* base name of the input file
    doc,         \* parse_odis_file's tree: the PARAMETER_DATA elements iterated
                 \* so far, in document order; gone when it returns
    datasets,    \* the list parse_odis_file builds and main() holds
    parsed,      \* history: datasets as parse_odis_file returned it
    new_data,    \* the bytes read from --modinput
    new_crc,     \* the value update_crc returned
    converted,   \* the list convert_to_vcp returned
    written,     \* what has been written to the output, in order
    error,       \* the exception that ended the run, "" if none
    stages       \* history: the pipeline stages completed, in order

vars == <<pc, args, input_name, doc, datasets, parsed, new_data, new_crc,
          converted, written, error, stages>>

NoCrc == [present |-> FALSE, val |-> WordOf(0)]

Init ==
    /\ pc = "start"
    /\ args = [raw |-> FALSE, modinput |-> FALSE, output |-> FALSE]
    /\ input_name = <<>>
    /\ doc = <<>>
    /\ datasets = <<>>
    /\ parsed = <<>>
    /\ new_data = None
    /\ new_crc = NoCrc
    /\ converted = <<>>
    /\ written = <<>>
    /\ error = ""
    /\ stages = <<>>

\* except Exception: sys.exit(1)
Fail(e) == pc' = "exit1" /\ error' = e

(***************************************************************************)
(* parse_arguments() and reading the input file (lines 352-359).           *)
(***************************************************************************)
ParseArguments ==
    /\ pc = "start"
    /\ \E raw \in BOOLEAN, modinput \in BOOLEAN, output \in BOOLEAN :
          args' = [raw |-> raw, modinput |-> modinput, output |-> output]
    /\ input_name' \in InputNames
    /\ pc' = "parse"
    /\ UNCHANGED <<doc, datasets, parsed, new_data, new_crc, converted, written,
                   error, stages>>

(***************************************************************************)
(* parse_odis_file: ET.fromstring raises on text that is not well-formed.  *)
(***************************************************************************)
ParseMalformed ==
    /\ pc = "parse"
    /\ Fail("ParseError")
    /\ UNCHANGED <<args, input_name, doc, datasets, parsed, new_data, new_crc,
                   converted, written, stages>>

ParseWellFormed ==
    /\ pc = "parse"
    /\ datasets' = <<>>
    /\ pc' = "loop"
    /\ UNCHANGED <<args, input_name, doc, parsed, new_data, new_crc, converted,
                   written, error, stages>>

\* one iteration of the loop over tree.iter('PARAMETER_DATA')
ParseEntry ==
    /\ pc = "loop"
    /\ Len(doc) < MaxEntries
    /\ \E param \in Params :
          LET r == ParseParam(param)
          IN /\ doc' = Append(doc, param)
             /\ IF r.err = ""
                THEN datasets' = Append(datasets, r.val) /\ UNCHANGED <<pc, error>>
                ELSE IF r.err \in CaughtInLoop
                THEN UNCHANGED <<datasets, pc, error>>
                ELSE UNCHANGED datasets /\ Fail(r.err)
    /\ UNCHANGED <<args, input_name, parsed, new_data, new_crc, converted, written,
                   stages>>

\* the loop ends and parse_odis_file returns the list
ParseReturn ==
    /\ pc = "loop"
    /\ parsed' = datasets
    /\ doc' = <<>>
    /\ stages' = Append(stages, "Parsed")
    /\ pc' = "parsed"
    /\ UNCHANGED <<args, input_name, datasets, new_data, new_crc, converted,
                   written, error>>

\* mutant: the return is missing
CheckDatasets_NoReturn ==
    /\ pc = "parsed"
    /\ pc' = "modify"
    /\ UNCHANGED <<args, input_name, doc, datasets, parsed, new_data, new_crc,
                   converted, written, error, stages>>

(***************************************************************************)
(* main(), lines 362-364: no datasets, return.                             *)
(***************************************************************************)
CheckDatasets ==
    /\ pc = "parsed"
    /\ pc' = IF datasets = <<>> THEN "nothing_to_do" ELSE "modify"
    /\ UNCHANGED <<args, input_name, doc, datasets, parsed, new_data, new_crc,
                   converted, written, error, stages>>

\* mutant: every dataset is updated
Modify_UpdatesEveryDataset ==
    /\ pc = "modify"
    /\ IF args.modinput /\ datasets # <<>>
       THEN \E bytes \in Payloads :
               /\ new_data' = Some(bytes)
               /\ datasets' = [i \in 1..Len(datasets) |->
                                  update_crc(datasets[i], bytes).dataset]
               /\ new_crc' = [present |-> TRUE, val |-> update_crc(datasets[1], bytes).ret]
               /\ stages' = Append(stages, "Updated")
       ELSE UNCHANGED <<new_data, datasets, new_crc, stages>>
    /\ pc' = "convert"
    /\ UNCHANGED <<args, input_name, doc, parsed, converted, written, error>>

(***************************************************************************)
(* main(), lines 370-377: with --modinput, read it and update_crc the      *)
(* first dataset.                                                          *)
(***************************************************************************)
Modify ==
    /\ pc = "modify"
    /\ IF args.modinput /\ datasets # <<>>
       THEN \E bytes \in Payloads :
               LET r == update_crc(datasets[1], bytes)
               IN /\ new_data' = Some(bytes)
                  /\ datasets' = [datasets EXCEPT ![1] = r.dataset]
                  /\ new_crc' = [present |-> TRUE, val |-> r.ret]
                  /\ stages' = Append(stages, "Updated")
       ELSE UNCHANGED <<new_data, datasets, new_crc, stages>>
    /\ pc' = "convert"
    /\ UNCHANGED <<args, input_name, doc, parsed, converted, written, error>>

\* mutant: the datasets are serialized as they were parsed
Convert_SerializesParsed ==
    /\ pc = "convert"
    /\ converted' = convert_to_vcp(parsed, input_name)
    /\ stages' = Append(stages, "Serialized")
    /\ pc' = "export"
    /\ UNCHANGED <<args, input_name, doc, datasets, parsed, new_data, new_crc,
                   written, error>>

(***************************************************************************)
(* main(), line 380: convert_to_vcp.                                       *)
(***************************************************************************)
Convert ==
    /\ pc = "convert"
    /\ converted' = convert_to_vcp(datasets, input_name)
    /\ stages' = Append(stages, "Serialized")
    /\ pc' = "export"
    /\ UNCHANGED <<args, input_name, doc, datasets, parsed, new_data, new_crc,
                   written, error>>

(***************************************************************************)
(* main(), lines 383-389: export_output, then the run ends.                *)
(***************************************************************************)
Export ==
    /\ pc = "export"
    /\ \E io_error \in BOOLEAN :
          LET r == export_output(converted, args, io_error)
          IN IF r.err = ""
             THEN /\ written' = written \o r.val
                  /\ stages' = IF r.val # <<>> THEN Append(stages, "Emitted") ELSE stages
                  /\ pc' = "done"
                  /\ UNCHANGED error
             ELSE /\ Fail(r.err)
                  /\ UNCHANGED <<written, stages>>
    /\ UNCHANGED <<args, input_name, doc, datasets, parsed, new_data, new_crc,
                   converted>>

Next ==
    \/ ParseArguments
    \/ ParseMalformed
    \/ ParseWellFormed
    \/ ParseEntry
    \/ ParseReturn
    \/ CheckDatasets
    \/ Modify
    \/ Convert
    \/ Export

Spec == Init /\ [][Next]_vars

(***************************************************************************)
(* Properties.                                                             *)
(***************************************************************************)
Updated == new_data.present
AfterParse == stages # <<>>

\* the text of the element `tag` of a VCP document
Field(vcp, tag) == vcp[CHOOSE i \in 1..Len(vcp) : vcp[i][1] = tag][2]

\* byte k (0 = least significant) of a 32-bit register
ByteOf(w, k) == IF k < 2 THEN (w.lo \div (256 ^ k)) % 256
                ELSE (w.hi \div (256 ^ (k - 2))) % 256

(***************************************************************************)
(* C1: a replacement payload of length 0..3 makes the update raise         *)
(* InvalidPayloadError and leaves the dataset as it was parsed.            *)
(***************************************************************************)
C1_ShortPayloadRejected ==
    (Updated /\ Len(new_data.val) < 4) =>
        /\ pc = "exit1"
        /\ error = "InvalidPayloadError"
        /\ datasets = parsed

(***************************************************************************)
(* C2: for a replacement payload P of length >= 4, after update_crc the    *)
(* stored payload is as long as P, starts with P[0:len(P)-4], ends with    *)
(* the checksum of P[0:len(P)-4] least-significant byte first, and the     *)
(* value returned is that checksum.                                        *)
(***************************************************************************)
C2_UpdateStoresChecksum ==
    (Updated /\ Len(new_data.val) >= 4) =>
        LET P == new_data.val
            n == Len(P)
            stored == datasets[1].data
            crc == crc32_func(SubSeq(P, 1, n - 4))
        IN /\ Len(stored) = n
           /\ \A i \in 1..(n - 4) : stored[i] = P[i]
           /\ new_crc = [present |-> TRUE, val |-> crc]
           /\ \A k \in 0..3 : stored[n - 3 + k] = ByteOf(new_crc.val, k)

C2_Witness ==
    /\ pc = "convert"
    /\ Updated
    /\ Len(new_data.val) = 5
    /\ new_data.val[1] = 165

(***************************************************************************)
(* C3: with a replacement payload, the update changes only the first       *)
(* dataset: every later dataset keeps the payload and metadata it was      *)
(* parsed with, and is serialized as it is in a run without a replacement. *)
(***************************************************************************)
C3_OnlyFirstDatasetUpdated ==
    Updated =>
        /\ Len(datasets) = Len(parsed)
        /\ \A i \in 2..Len(datasets) : datasets[i] = parsed[i]
        /\ \A i \in 2..Len(converted) :
              /\ converted[i].dataset = parsed[i]
              /\ converted[i].vcp = convert_dataset_to_vcp(parsed[i], input_name).vcp

C3_Witness ==
    /\ Updated
    /\ Len(datasets) >= 2
    /\ Len(converted) >= 2
    /\ datasets[1] # parsed[1]

(***************************************************************************)
(* C4: parsing a well-formed document never raises, and the list it builds *)
(* is exactly the datasets of the entries whose payload and addresses      *)
(* decode, one per entry, in document order.                               *)
(***************************************************************************)
Decodes(param) ==
    /\ convert_to_binary(param.text).err = ""
    /\ int16(GetAttr(param.DIAGNOSTIC_ADDRESS, <<"0">>)).err = ""
    /\ int16(GetAttr(param.START_ADDRESS, <<"0">>)).err = ""

C4_ParseSkipsOnlyFailingEntries ==
    /\ (pc = "exit1" /\ ~AfterParse) => error = "ParseError" /\ doc = <<>>
    /\ pc = "loop" =>
          LET valid == SelectSeq(doc, Decodes)
          IN /\ Len(datasets) = Len(valid)
             /\ \A i \in 1..Len(valid) :
                   /\ datasets[i].data = convert_to_binary(valid[i].text).val
                   /\ datasets[i].address =
                         int16(GetAttr(valid[i].DIAGNOSTIC_ADDRESS, <<"0">>)).val
                   /\ datasets[i].start_address =
                         int16(GetAttr(valid[i].START_ADDRESS, <<"0">>)).val
                   /\ datasets[i].name = valid[i].ZDC_NAME
                   /\ datasets[i].version = valid[i].ZDC_VERSION
                   /\ datasets[i].login = valid[i].LOGIN

C4_Witness ==
    /\ pc = "loop"
    /\ Len(doc) = 2
    /\ ~Decodes(doc[1])
    /\ Decodes(doc[2])
    /\ Len(datasets) = 1

(***************************************************************************)
(* C5: when parsing yields no dataset the run goes from Parsed to the      *)
(* terminal "nothing to do" state: no update, no serialization, no write,  *)
(* no failure, whatever the options.                                       *)
(***************************************************************************)
C5_NoDatasetsEndsRun ==
    (AfterParse /\ parsed = <<>>) =>
        /\ pc \in {"parsed", "nothing_to_do"}
        /\ stages = <<"Parsed">>
        /\ ~Updated
        /\ ~new_crc.present
        /\ converted = <<>>
        /\ written = <<>>
        /\ error = ""

C5_Witness ==
    /\ pc = "nothing_to_do"
    /\ args.raw
    /\ args.modinput
    /\ parsed = <<>>

(***************************************************************************)
(* C6: a run that reaches emission with at least one dataset writes        *)
(* exactly once, and only the first item: in raw mode the payload of       *)
(* dataset 0, otherwise the serialized document of dataset 0. (A run the   *)
(* environment fails with an I/O error is left aside.)                     *)
(***************************************************************************)
C6_ExactlyOneWriteOfFirstItem ==
    (pc \in {"done", "exit1"} /\ converted # <<>> /\ error # "IOError") =>
        /\ Len(written) = 1
        /\ IF args.raw
           THEN written[1].mode = "raw" /\ written[1].content = datasets[1].data
           ELSE written[1].mode = "vcp" /\ written[1].content = converted[1].vcp

(***************************************************************************)
(* C7: decoding the payload field the serializer writes gives back the     *)
(* bytes it encoded, for every dataset serialized, the empty payload       *)
(* included.                                                               *)
(***************************************************************************)
C7_DecodeOfEncodeIsIdentity ==
    \A i \in 1..Len(converted) :
        convert_to_binary(Some(Field(converted[i].vcp, "DATEN")))
            = Ok(converted[i].dataset.data)

C7_Witness ==
    /\ Len(converted) = 2
    /\ Len(converted[1].dataset.data) = 5
    /\ converted[2].dataset.data = <<>>

(***************************************************************************)
(* C8 as stated: DATAIID and DATEN-NAME are equal, are dataset.name        *)
(* whenever the name attribute is present (the empty name included), and   *)
(* are "<prefix>-<address in lowercase hex>" only when it is absent.       *)
(***************************************************************************)
\* t is n in lowercase hex, no leading zero, no prefix
IsLowerHexOf(t, n) ==
    /\ t # <<>>
    /\ \A i \in 1..Len(t) : \E d \in 1..16 : HexDigits[d] = t[i]
    /\ Len(t) > 1 => t[1] # "0"
    /\ HexDigitsValue(t) = n

IsFallbackName(t, prefix, address) ==
    /\ Len(t) > Len(prefix) + 1
    /\ SubSeq(t, 1, Len(prefix)) = prefix
    /\ t[Len(prefix) + 1] = "-"
    /\ IsLowerHexOf(SubSeq(t, Len(prefix) + 2, Len(t)), address)

C8_NameWheneverPresent ==
    \A i \in 1..Len(converted) :
        LET d == converted[i].dataset
            id == Field(converted[i].vcp, "DATAIID")
        IN /\ id = Field(converted[i].vcp, "DATEN-NAME")
           /\ IF d.name.present THEN id = d.name.val
              ELSE IsFallbackName(id, input_name, d.address)

(***************************************************************************)
(* C8 amended: DATAIID and DATEN-NAME are equal, are dataset.name when the *)
(* name attribute is present and not empty, and are                        *)
(* "<prefix>-<address in lowercase hex>" when it is absent or empty.       *)
(***************************************************************************)
C8_NameWhenPresentAndNotEmpty ==
    \A i \in 1..Len(converted) :
        LET d == converted[i].dataset
            id == Field(converted[i].vcp, "DATAIID")
        IN /\ id = Field(converted[i].vcp, "DATEN-NAME")
           /\ IF d.name.present /\ d.name.val # <<>> THEN id = d.name.val
              ELSE IsFallbackName(id, input_name, d.address)

C8_Witness ==
    /\ Len(converted) = 2
    /\ converted[1].dataset.name = Some(<<>>)
    /\ converted[2].dataset.name = Some(<<"N">>)

(***************************************************************************)
(* Reference CRCs, bit by bit, with polynomial 0x04c11db7.                 *)
(*   CrcMsbFirst  not reflected: the byte enters at the top of the         *)
(*                register, which shifts left                              *)
(*   CrcLsbFirst  reflected: the byte enters at the bottom of the          *)
(*                register, which shifts right, the polynomial reversed    *)
(*                (0xedb88320)                                             *)
(***************************************************************************)
Poly == Word(1217, 7607)
PolyRev == Word(60856, 33568)
AllOnes == Word(65535, 65535)
Zero == Word(0, 0)

Shl1(w) == Word(((2 * w.hi) % 65536) + (w.lo \div 32768), (2 * w.lo) % 65536)

RECURSIVE ShiftLeftSteps(_, _)
ShiftLeftSteps(reg, k) ==
    IF k = 0 THEN reg
    ELSE IF reg.hi >= 32768 THEN ShiftLeftSteps(Xor32(Shl1(reg), Poly), k - 1)
    ELSE ShiftLeftSteps(Shl1(reg), k - 1)

RECURSIVE CrcMsbFirst(_, _)
CrcMsbFirst(data, reg) ==
    IF data = <<>> THEN reg
    ELSE CrcMsbFirst(Tail(data),
                     ShiftLeftSteps(Xor32(reg, Word(256 * data[1], 0)), 8))

RECURSIVE ShiftRightSteps(_, _)
ShiftRightSteps(reg, k) ==
    IF k = 0 THEN reg
    ELSE IF reg.lo % 2 = 1 THEN ShiftRightSteps(Xor32(Shr1(reg), PolyRev), k - 1)
    ELSE ShiftRightSteps(Shr1(reg), k - 1)

RECURSIVE CrcLsbFirst(_, _)
CrcLsbFirst(data, reg) ==
    IF data = <<>> THEN reg
    ELSE CrcLsbFirst(Tail(data), ShiftRightSteps(Xor32(reg, Word(0, data[1])), 8))

\* the ASCII bytes of "123456789"
CheckInput == <<49, 50, 51, 52, 53, 54, 55, 56, 57>>
CheckValueCrc32 == crc32_func(CheckInput)

(***************************************************************************)
(* C9 as stated: the checksum update_crc uses is the CRC-32 with           *)
(* polynomial 0x04c11db7 processed not reflected, the register starting at *)
(* 0, the result XORed with 0xFFFFFFFF; of the empty input it is           *)
(* 0xFFFFFFFF.                                                             *)
(***************************************************************************)
C9_ChecksumNotReflectedInitZero ==
    Updated =>
        LET domain == AllButLast4(new_data.val)
        IN /\ new_crc.val = Xor32(CrcMsbFirst(domain, Zero), AllOnes)
           /\ domain = <<>> => new_crc.val = AllOnes

(***************************************************************************)
(* C9 amended: the checksum update_crc uses is the CRC-32 with polynomial  *)
(* 0x04c11db7 processed reflected (least-significant bit first), the       *)
(* register starting at 0xFFFFFFFF, the result XORed with 0xFFFFFFFF (the  *)
(* CRC-32 of zlib, 0xcbf43926 for "123456789"); of the empty input it is   *)
(* 0.                                                                      *)
(***************************************************************************)
C9_ChecksumReflectedInitOnes ==
    /\ CheckValueCrc32 = Word(52212, 14630)
    /\ Updated =>
          LET domain == AllButLast4(new_data.val)
          IN /\ new_crc.present
             /\ new_crc.val = Xor32(CrcLsbFirst(domain, AllOnes), AllOnes)
             /\ domain = <<>> => new_crc.val = Zero

C9_Witness ==
    /\ Updated
    /\ Len(new_data.val) = 5
    /\ new_crc.val = Word(53762, 61325)

(***************************************************************************)
(* C10: the stages of a run occur in the order Parsed, Updated (only with  *)
(* a replacement payload), Serialized, Emitted, none twice; the datasets   *)
(* are the parsed ones, the first with its payload replaced by the update  *)
(* once that has happened, and nothing else changes them; the serialized   *)
(* payload and size fields and the raw bytes written are those of the      *)
(* payload after the update.                                               *)
(***************************************************************************)
StageOrders ==
    { <<>>,
      <<"Parsed">>,
      <<"Parsed", "Updated">>,
      <<"Parsed", "Serialized">>,
      <<"Parsed", "Updated", "Serialized">>,
      <<"Parsed", "Serialized", "Emitted">>,
      <<"Parsed", "Updated", "Serialized", "Emitted">> }

HasStage(name) == \E i \in 1..Len(stages) : stages[i] = name

C10_StagesInOrderPayloadReplacedOnce ==
    /\ stages \in StageOrders
    /\ HasStage("Updated") <=> Updated
    /\ (HasStage("Serialized") /\ args.modinput) => HasStage("Updated")
    /\ (HasStage("Updated") => args.modinput)
    /\ AfterParse =>
          datasets = IF Updated
                     THEN [parsed EXCEPT ![1] = update_crc(parsed[1], new_data.val).dataset]
                     ELSE parsed
    /\ HasStage("Serialized") =>
          /\ Len(converted) = Len(datasets)
          /\ \A i \in 1..Len(converted) : converted[i].dataset = datasets[i]
          /\ Field(converted[1].vcp, "DATEN") = EncodeHexData(datasets[1].data)
          /\ Field(converted[1].vcp, "GROESSE-DEKOMPRIMIERT")
                = <<"0", "x">> \o FormatHex(Len(datasets[1].data))
    /\ \A i \in 1..Len(written) :
          written[i].mode = "raw" => written[i].content = datasets[1].data

C10_Witness ==
    /\ stages = <<"Parsed", "Updated", "Serialized", "Emitted">>
    /\ written # <<>>
    /\ written[1].mode = "raw"
    /\ datasets[1] # parsed[1]

====
